---- MODULE Spec2Model ----
(***************************************************************************)
(* Allocation lifecycle of the asset-management backend:                   *)
(*   controllers/allocation.js  createAllocation, updateAllocation,        *)
(*                              approveAllocation, rejectAllocation        *)
(*   jobs/availabilityScheduler.js  parseDateFlexible,                     *)
(*                              processExpiredAllocations                  *)
(*   models/Allocation.js, models/Asset.js  the two document schemas       *)
(* Every request handler and every sweep run is one atomic action in Spec   *)
(* (the handler run to completion).  Further specifications look closer:   *)
(* SpecParse applies parseDateFlexible to one end-time string, SpecRace     *)
(* interleaves a decision request with a sweep run at their awaits,         *)
(* SpecNotify runs one request with its notification part, SpecFcm is one   *)
(* call of utils/fcm.js sendFcmToTokens, SpecMail one call of               *)
(* sendEmailsToRecipients with its sends settling in any order,             *)
(* SpecResolve one call of normalizeUserIds or of a gather function.        *)
(***************************************************************************)
EXTENDS Integers, Sequences, FiniteSets, TLC

VARIABLES allocations, assets, now, last, parsed, race, users, notify, call

vars == <<allocations, assets, now, last, parsed, race, users, notify, call>>

\* The observation variables of the other specifications of this module; the
\* request handlers and the atomic sweep of Spec leave them as they are.
aux == <<parsed, race, users, notify, call>>

\* ------------------------------------------------------------- bounds
\* At most MaxAllocs Allocation documents are created in one behaviour.
MaxAllocs == 2
\* The clock runs over the day numbers 0 .. MaxNow.
MaxNow == 1

\* ------------------------------------------------------------- values
NULL == "null"
\* A null Allocation reference, a request id that is no ObjectId, and the
\* null / NaN result of a date parse (day numbers in use are >= 0).
NoId == 0
BadId == -1
NoDate == -1

Users == {"u1", "u2"}

\* The Asset collection holds one document; MissingAsset is a well-formed
\* ObjectId that names no Asset document.
AssetIds == {"a1"}
MissingAsset == "a0"

Statuses == {"pending", "approved", "rejected", "completed"}

\* duration.endTime is a String in the schema.  A string is modelled by its
\* shape: fmt "iso" is yyyy-mm-dd (a = year, b = month, c = day), fmt "slash"
\* is a/b/c and fmt "dash" is a-b-c as written, fmt "text" is any other text
\* (three parts when split on / or -, none of them a number), fmt "none" is
\* an absent field.
NoEnd == [fmt |-> "none", a |-> 0, b |-> 0, c |-> 0]
BadEnd == [fmt |-> "text", a |-> 0, b |-> 0, c |-> 0]
IsoEnd(y, m, d) == [fmt |-> "iso", a |-> y, b |-> m, c |-> d]
SlashEnd(p, q, r) == [fmt |-> "slash", a |-> p, b |-> q, c |-> r]
DashEnd(p, q, r) == [fmt |-> "dash", a |-> p, b |-> q, c |-> r]

\* Day number of a calendar date; day 1 is 1 January 2024.  Months are laid
\* out 31 days apart, which keeps the order of calendar dates and the month
\* overflow of new Date(year, month - 1, day).
DayNumber(y, m, d) == (y - 2024) * 372 + (m - 1) * 31 + d

\* Date.parse as the runtime implements it: ISO text is read as written;
\* a/b/yyyy and a-b-yyyy are read by the legacy parser as month/day/year and
\* are NaN (NoDate) when the first part is no month; other text is NaN.
DateParse(v) ==
    CASE v.fmt = "iso" ->
           IF v.b \in 1..12 /\ v.c \in 1..31 THEN DayNumber(v.a, v.b, v.c) ELSE NoDate
      [] v.fmt \in {"slash", "dash"} ->
           IF v.a \in 1..12 /\ v.b \in 1..31 THEN DayNumber(v.c, v.a, v.b) ELSE NoDate
      [] OTHER -> NoDate

\* Variant: a text that is no date is read as day 0.
parseDateFlexible_TextAsDate(v) ==
    IF v.fmt = "text" THEN 0 ELSE DateParse(v)

parseDateFlexible(v) ==
    IF v.fmt = "none" THEN NoDate
    ELSE IF DateParse(v) # NoDate THEN DateParse(v)
    ELSE IF v.fmt \in {"slash", "dash"} /\ v.a # 0 /\ v.b # 0 /\ v.c # 0
         THEN DayNumber(v.c, v.b, v.a)
         ELSE NoDate

\* ------------------------------------------------------------- requests
\* A create body: status is NULL when the body carries no status field,
\* allocationType is NULL when the body lacks that required field.
Body(asset, type, to, endTime, status) ==
    [asset |-> asset, allocationType |-> type, allocatedTo |-> to,
     allocatedBy |-> "u1", endTime |-> endTime, status |-> status]

\* The bodies tried: an ownership transfer with an ISO end-time, a temporary
\* allocation whose end-time is free text, an allocation of an asset that
\* does not exist, a body that carries a status field, and a body without
\* the required allocationType.
CreateBodies ==
    { Body("a1", "Owner", "u2", IsoEnd(2024, 1, 1), NULL),
      Body("a1", "Temporary", "u2", BadEnd, NULL),
      Body(MissingAsset, "Temporary", "u2", IsoEnd(2024, 1, 1), NULL),
      Body("a1", "Owner", "u2", IsoEnd(2024, 1, 1), "approved"),
      Body("a1", NULL, "u2", NoEnd, NULL) }

\* An update body: [status |-> s] sets the status field ("bogus" is a value
\* outside the enum), [status |-> NULL] is a body without a status field.
UpdateBodies == [status : Statuses \cup {NULL, "bogus"}]

\* The ids a request may carry: the ids of documents that exist or may come
\* to exist, and one string that is no ObjectId.
RequestIds == (1..MaxAllocs) \cup {BadId}

isValidId(id) == id # BadId

\* ------------------------------------------------------------- state
TypeOK ==
    /\ Len(allocations) <= MaxAllocs
    /\ \A i \in 1..Len(allocations) :
          allocations[i] \in [status : Statuses, asset : AssetIds \cup {MissingAsset},
                              allocationType : {"Owner", "Temporary"},
                              allocatedTo : Users, allocatedBy : Users,
                              endTime : {b.endTime : b \in CreateBodies}]
    /\ assets \in [AssetIds -> [availablity : BOOLEAN, owner : Users,
                                 purchaser : Users,
                                 allocation : (1..MaxAllocs) \cup {NoId}]]
    /\ now \in 0..MaxNow

\* last is the request or sweep run served last with a success result: the
\* operation, the allocation id it named, whether that allocation was pending
\* before it, and (sweep) the allocations the run found due.  A run during
\* which a store write raised is recorded by its operation alone (fail).  A
\* request answered with an error (400, 404, validation) leaves last as it is.
Last(op, id, pre, fail, batch) ==
    IF fail
    THEN [op |-> op, id |-> NoId, pending |-> FALSE, fail |-> TRUE, batch |-> {}]
    ELSE [op |-> op, id |-> id, pending |-> (pre = "pending"), fail |-> FALSE,
          batch |-> batch]

\* parsed is one call of parseDateFlexible: its argument and, once the call
\* has returned, its result.
NoCall == [called |-> FALSE]

\* call is one call of a helper of the notification part (sendFcmToTokens,
\* sendEmailsToRecipients, normalizeUserIds, the two gather functions): the
\* function, its arguments and what its surroundings do, and, once it has
\* returned or raised, its outcome.
Idle == [fn |-> "none"]

\* race is the position of one decision request (approve or reject) and of
\* one sweep run that execute step by step, each await being a point where
\* the other may run: the request's operation and next step, and the sweep's
\* next step, its query result and the time it read at its start.
NoRace == [op |-> "none"]

\* users is the User collection as the notification code reads it: the push
\* tokens of each user, which vary; a user's email and role are fixed and
\* given by Email and Role.  notify is the notification part of the request
\* handled last: the operation and the allocation it named, the status it was
\* to store, the call that failed, the calls attempted, the users whose
\* contacts were looked up, and the response code.
Admins == {"u3"}
AllUsers == Users \cup Admins
Token(u) == u
Email(u) == u
Role(u) == IF u \in Admins THEN "admin" ELSE "member"
UserStore(holders) ==
    [u \in AllUsers |-> [fcmTokens |-> IF u \in holders THEN {Token(u)} ELSE {}]]
NoNotify == [op |-> "none"]

Init ==
    /\ allocations = << >>
    /\ assets = [a \in AssetIds |->
                   [availablity |-> TRUE, owner |-> "u1", purchaser |-> "u1",
                    allocation |-> NoId]]
    /\ now = 0
    /\ last = Last("init", NoId, NULL, FALSE, {})
    /\ parsed = NoCall
    /\ call = Idle
    /\ race = NoRace
    /\ users = UserStore(AllUsers)
    /\ notify = NoNotify

\* Variant: a write that raises has been applied all the same.
AssetUpdate_WritesOnRaise(as, ref, fail, updated) ==
    IF ref \in DOMAIN as THEN [as EXCEPT ![ref] = updated] ELSE as

\* Asset.findByIdAndUpdate(ref, update): a missing document is no error, the
\* call returns null and writes nothing; `fail` is the store raising.
AssetUpdate(as, ref, fail, updated) ==
    IF ref \in DOMAIN as /\ ~fail THEN [as EXCEPT ![ref] = updated] ELSE as

\* ------------------------------------------------------------- create
\* Allocation.create(req.body): schema validation, then the defaults.
ValidCreateBody(body) ==
    /\ body.allocationType # NULL
    /\ body.status \in Statuses \cup {NULL}

NewAllocation(body) ==
    [status |-> IF body.status = NULL THEN "pending" ELSE body.status,
     asset |-> body.asset, allocationType |-> body.allocationType,
     allocatedTo |-> body.allocatedTo, allocatedBy |-> body.allocatedBy,
     endTime |-> body.endTime]

\* Variant: the back-reference is not written at creation.
OnAllocationCreated_Unlinked(asset, id) == asset

\* Variant: creation also reserves the asset.
OnAllocationCreated_Reserves(asset, id) ==
    [asset EXCEPT !.allocation = id, !.availablity = FALSE]

OnAllocationCreated(asset, id) == [asset EXCEPT !.allocation = id]

createAllocation(body, fail) ==
    /\ Len(allocations) < MaxAllocs
    /\ UNCHANGED now
    /\ IF ~ValidCreateBody(body)
       THEN /\ UNCHANGED <<allocations, assets>>
            /\ UNCHANGED last
       ELSE LET id == Len(allocations) + 1
                doc == NewAllocation(body)
            IN /\ allocations' = Append(allocations, doc)
               /\ assets' = IF doc.asset \in DOMAIN assets
                            THEN AssetUpdate(assets, doc.asset, fail,
                                             OnAllocationCreated(assets[doc.asset], id))
                            ELSE assets
               /\ last' = Last("create", id, NULL, fail, {})

\* ------------------------------------------------------------- update
updateAllocation(id, body) ==
    /\ UNCHANGED <<assets, now>>
    /\ IF ~isValidId(id)
       THEN /\ UNCHANGED allocations
            /\ UNCHANGED last
       ELSE IF id > Len(allocations)
       THEN /\ UNCHANGED allocations
            /\ UNCHANGED last
       ELSE IF body.status \notin Statuses \cup {NULL}
       THEN /\ UNCHANGED allocations
            /\ UNCHANGED last
       ELSE /\ allocations' =
                 IF body.status = NULL THEN allocations
                 ELSE [allocations EXCEPT ![id].status = body.status]
            /\ last' = Last("update", id, allocations[id].status, FALSE, {})

\* ------------------------------------------------------------- approve
\* Variant: approval writes the back-reference and the owner but leaves the
\* availability flag as it was.
OnAllocationApproved_KeepsFlag(asset, alloc, id) ==
    [asset EXCEPT !.allocation = id,
                  !.owner = IF alloc.allocationType = "Owner" /\ alloc.allocatedTo # NULL
                            THEN alloc.allocatedTo ELSE @]

\* Variant: approval reassigns the owner whatever the allocation type.
OnAllocationApproved_AnyType(asset, alloc, id) ==
    [asset EXCEPT !.availablity = FALSE,
                  !.allocation = id,
                  !.owner = IF alloc.allocatedTo # NULL THEN alloc.allocatedTo ELSE @]

OnAllocationApproved(asset, alloc, id) ==
    [asset EXCEPT !.availablity = FALSE,
                  !.allocation = id,
                  !.owner = IF alloc.allocationType = "Owner" /\ alloc.allocatedTo # NULL
                            THEN alloc.allocatedTo ELSE @]

approveAllocation(id, fail) ==
    /\ UNCHANGED now
    /\ IF ~isValidId(id)
       THEN /\ UNCHANGED <<allocations, assets>>
            /\ UNCHANGED last
       ELSE IF id > Len(allocations)
       THEN /\ UNCHANGED <<allocations, assets>>
            /\ UNCHANGED last
       ELSE LET alloc == [allocations[id] EXCEPT !.status = "approved"]
            IN /\ allocations' = [allocations EXCEPT ![id] = alloc]
               /\ assets' = IF alloc.asset \in DOMAIN assets
                            THEN AssetUpdate(assets, alloc.asset, fail,
                                     OnAllocationApproved(assets[alloc.asset], alloc, id))
                            ELSE assets
               /\ last' = Last("approve", id, allocations[id].status, fail, {})

\* ------------------------------------------------------------- reject
\* Variant: rejection leaves the asset as it was.
OnAllocationRejected_Untouched(asset) == asset

\* Variant: a rejection hands the asset back to its purchaser.
OnAllocationRejected_RevertsOwner(asset) ==
    [asset EXCEPT !.availablity = TRUE, !.owner = asset.purchaser]

OnAllocationRejected(asset) == [asset EXCEPT !.availablity = TRUE]

rejectAllocation(id, fail) ==
    /\ UNCHANGED now
    /\ IF ~isValidId(id)
       THEN /\ UNCHANGED <<allocations, assets>>
            /\ UNCHANGED last
       ELSE IF id > Len(allocations)
       THEN /\ UNCHANGED <<allocations, assets>>
            /\ UNCHANGED last
       ELSE LET alloc == [allocations[id] EXCEPT !.status = "rejected"]
            IN /\ allocations' = [allocations EXCEPT ![id] = alloc]
               /\ assets' = IF alloc.asset \in DOMAIN assets
                            THEN AssetUpdate(assets, alloc.asset, fail,
                                             OnAllocationRejected(assets[alloc.asset]))
                            ELSE assets
               /\ last' = Last("reject", id, allocations[id].status, fail, {})

\* ------------------------------------------------------------- sweep
\* The query of the sweep: approved, with duration.endTime present.
SweepQuery(allocs) ==
    {i \in 1..Len(allocs) : allocs[i].status = "approved" /\ allocs[i].endTime.fmt # "none"}

\* Variant: the comparison is strict (endTime < now).
Expired_Strict(alloc, t) ==
    /\ parseDateFlexible(alloc.endTime) # NoDate
    /\ parseDateFlexible(alloc.endTime) < t

\* endTime parsed and endTime <= now.
Expired(alloc, t) ==
    /\ parseDateFlexible(alloc.endTime) # NoDate
    /\ parseDateFlexible(alloc.endTime) <= t

\* Variant: completion leaves the asset as it was.
OnAllocationCompleted_KeepsFlag(asset) == asset

OnAllocationCompleted(asset) == [asset EXCEPT !.availablity = TRUE]

FailKinds == {"none", "asset", "save"}

\* Variant: the first store call that raises ends the run.
RECURSIVE SweepLoop_AbortOnFailure(_, _, _, _, _)
SweepLoop_AbortOnFailure(i, batch, fault, st, t) ==
    IF i > Len(st.allocations) THEN st
    ELSE IF i \notin batch \/ ~Expired(st.allocations[i], t)
    THEN SweepLoop_AbortOnFailure(i + 1, batch, fault, st, t)
    ELSE IF fault[i] # "none" THEN st
    ELSE LET alloc == st.allocations[i]
             as1 == IF alloc.asset \in DOMAIN st.assets
                    THEN AssetUpdate(st.assets, alloc.asset, FALSE,
                                     OnAllocationCompleted(st.assets[alloc.asset]))
                    ELSE st.assets
             al1 == [st.allocations EXCEPT ![i].status = "completed"]
         IN SweepLoop_AbortOnFailure(i + 1, batch, fault,
                                     [allocations |-> al1, assets |-> as1], t)

\* The loop body for allocation i: fault "asset" is the asset update raising
\* (the save is then never reached), fault "save" is alloc.save() raising
\* after the asset was written.
RECURSIVE SweepLoop(_, _, _, _, _)
SweepLoop(i, batch, fault, st, t) ==
    IF i > Len(st.allocations) THEN st
    ELSE IF i \notin batch \/ ~Expired(st.allocations[i], t)
    THEN SweepLoop(i + 1, batch, fault, st, t)
    ELSE LET alloc == st.allocations[i]
             as1 == IF alloc.asset \in DOMAIN st.assets
                    THEN AssetUpdate(st.assets, alloc.asset, fault[i] = "asset",
                                     OnAllocationCompleted(st.assets[alloc.asset]))
                    ELSE st.assets
             al1 == IF fault[i] = "none"
                    THEN [st.allocations EXCEPT ![i].status = "completed"]
                    ELSE st.allocations
         IN SweepLoop(i + 1, batch, fault, [allocations |-> al1, assets |-> as1], t)

processExpiredAllocations(fault) ==
    LET batch == SweepQuery(allocations)
        due == {i \in batch : Expired(allocations[i], now)}
        end == SweepLoop(1, batch, fault, [allocations |-> allocations, assets |-> assets], now)
    IN /\ allocations' = end.allocations
       /\ assets' = end.assets
       /\ UNCHANGED now
       /\ last' = Last("sweep", NoId, NULL, \E i \in due : fault[i] # "none", due)

\* ------------------------------------------------------------- clock
Tick ==
    /\ now < MaxNow
    /\ now' = now + 1
    /\ UNCHANGED <<allocations, assets>>
    /\ UNCHANGED last
    /\ UNCHANGED aux

\* ------------------------------------------------------------- spec
Create ==
    \E body \in CreateBodies, fail \in BOOLEAN :
        /\ createAllocation(body, fail)
        /\ UNCHANGED aux
\* A request whose id is answered 400 or 404 is tried with one body only.
Found(id) == isValidId(id) /\ id <= Len(allocations)
Update ==
    \E id \in RequestIds, body \in UpdateBodies :
        /\ Found(id) \/ body.status = NULL
        /\ updateAllocation(id, body)
        /\ UNCHANGED aux
Approve ==
    \E id \in RequestIds, fail \in BOOLEAN :
        /\ Found(id) \/ ~fail
        /\ approveAllocation(id, fail)
        /\ UNCHANGED aux
Reject ==
    \E id \in RequestIds, fail \in BOOLEAN :
        /\ Found(id) \/ ~fail
        /\ rejectAllocation(id, fail)
        /\ UNCHANGED aux
Sweep ==
    \E fault \in [1..MaxAllocs -> FailKinds] :
        /\ \A i \in 1..MaxAllocs :
              (i \notin SweepQuery(allocations) \/ ~Expired(allocations[i], now))
                  => fault[i] = "none"
        /\ processExpiredAllocations(fault)
        /\ UNCHANGED aux

Next == Create \/ Update \/ Approve \/ Reject \/ Sweep \/ Tick

Spec == Init /\ [][Next]_vars

\* ------------------------------------------------------------- helpers
AllocIds == 1..Len(allocations)
HasAsset(i) == allocations[i].asset \in AssetIds
ApprovedOn(a) == {i \in AllocIds : allocations[i].asset = a /\ allocations[i].status = "approved"}
NoFault == [i \in 1..MaxAllocs |-> "none"]

\* ------------------------------------------------------------- claims

\* C1: approveAllocation and rejectAllocation succeed only on a pending
\* allocation: on an allocation that is approved, rejected or completed the
\* request is answered with an error, so it is not recorded as served and it
\* leaves every allocation and every asset as they were.
C1_DecideOnlyPending ==
    [][\A id \in AllocIds :
          allocations[id].status # "pending" =>
             \A fail \in BOOLEAN :
                (approveAllocation(id, fail) \/ rejectAllocation(id, fail))
                   => UNCHANGED <<allocations, assets, last>>]_vars

\* C2: in every reachable state an asset's availability flag is false if and
\* only if some approved allocation references the asset.
C2_UnavailableIffApproved ==
    \A a \in AssetIds : (assets[a].availablity = FALSE) <=> (ApprovedOn(a) # {})

\* C3: in every reachable state at most one approved allocation references
\* any one asset.
C3_AtMostOneApproved ==
    \A a \in AssetIds : Cardinality(ApprovedOn(a)) <= 1

\* C4: when approveAllocation has completed on a pending allocation whose
\* asset exists (the asset write not raising), the allocation is approved,
\* the asset's availability is false and the asset's allocation
\* back-reference is that allocation's id.
C4_ApproveSyncsAsset ==
    (last.op = "approve" /\ ~last.fail /\ last.pending /\ HasAsset(last.id)) =>
        /\ allocations[last.id].status = "approved"
        /\ assets[allocations[last.id].asset].availablity = FALSE
        /\ assets[allocations[last.id].asset].allocation = last.id

C4_Witness ==
    /\ last.op = "approve" /\ ~last.fail /\ last.pending
    /\ HasAsset(last.id)
    /\ allocations[last.id].status = "approved"
    /\ assets[allocations[last.id].asset].allocation = last.id
    /\ assets[allocations[last.id].asset].availablity = FALSE

\* C5: an approveAllocation step (the asset write not raising) on an
\* allocation whose asset exists makes the asset's owner the recipient when
\* the allocation type is Owner and a recipient is present, and leaves the
\* owner as it was for every other allocation type.
C5_OwnerOnlyForOwnerType ==
    [][\A id \in AllocIds :
          (approveAllocation(id, FALSE) /\ HasAsset(id)) =>
             LET alloc == allocations[id]
             IN assets'[alloc.asset].owner =
                   IF alloc.allocationType = "Owner" /\ alloc.allocatedTo # NULL
                   THEN alloc.allocatedTo
                   ELSE assets[alloc.asset].owner]_vars

C5_Witness ==
    /\ last.op = "approve" /\ ~last.fail
    /\ HasAsset(last.id)
    /\ allocations[last.id].allocationType = "Owner"
    /\ assets[allocations[last.id].asset].owner = allocations[last.id].allocatedTo
    /\ assets[allocations[last.id].asset].owner # "u1"

\* C6: when rejectAllocation has completed on a pending allocation (the
\* asset write not raising), the allocation is rejected and the linked
\* asset's availability is true.
C6_RejectFreesAsset ==
    (last.op = "reject" /\ ~last.fail /\ last.pending) =>
        /\ allocations[last.id].status = "rejected"
        /\ HasAsset(last.id) => assets[allocations[last.id].asset].availablity = TRUE

\* The rejected allocation's asset is held by another, approved allocation:
\* the asset was unavailable before the rejection.
C6_Witness ==
    /\ last.op = "reject" /\ ~last.fail /\ last.pending
    /\ HasAsset(last.id)
    /\ allocations[last.id].status = "rejected"
    /\ ApprovedOn(allocations[last.id].asset) # {}
    /\ assets[allocations[last.id].asset].availablity = TRUE

\* C7: a sweep run during which no store call raises completes every
\* allocation that was approved with a parseable end-time at or before now
\* and makes its asset available; an approved allocation whose end-time is
\* after now stays approved.
C7_SweepCompletesDue ==
    [][(last'.op = "sweep" /\ processExpiredAllocations(NoFault)) =>
          \A i \in AllocIds :
             LET alloc == allocations[i]
                 endTime == parseDateFlexible(alloc.endTime)
             IN /\ (alloc.status = "approved" /\ endTime # NoDate /\ endTime <= now) =>
                      /\ allocations'[i].status = "completed"
                      /\ HasAsset(i) => assets'[alloc.asset].availablity = TRUE
                /\ (alloc.status = "approved" /\ endTime # NoDate /\ endTime > now) =>
                      allocations'[i].status = "approved"]_vars

C7_Witness ==
    /\ last.op = "sweep" /\ ~last.fail
    /\ \E i \in last.batch :
          /\ HasAsset(i)
          /\ parseDateFlexible(allocations[i].endTime) = now
          /\ allocations[i].status = "completed"
          /\ assets[allocations[i].asset].availablity = TRUE

\* C8: immediately after createAllocation has completed for a body that
\* references an existing asset (the asset write not raising), the asset's
\* allocation back-reference is the id of the new allocation.
C8_CreateLinksAsset ==
    (last.op = "create" /\ ~last.fail /\ HasAsset(last.id)) =>
        assets[allocations[last.id].asset].allocation = last.id

\* The second allocation created on the asset replaced the first one's id.
C8_Witness ==
    /\ last.op = "create" /\ ~last.fail
    /\ last.id = 2
    /\ HasAsset(1) /\ HasAsset(2)
    /\ assets[allocations[2].asset].allocation = 2

\* C9: every allocation createAllocation produces has status pending right
\* after its creation, whatever the request body carries.
C9_CreatedPending ==
    [][Len(allocations') > Len(allocations) =>
          allocations'[Len(allocations')].status = "pending"]_vars

\* C10: completed is terminal: no step changes the status of an allocation
\* whose status is completed.
C10_CompletedTerminal ==
    [][\A i \in AllocIds :
          allocations[i].status = "completed" => allocations'[i].status = "completed"]_vars

\* C11: an allocation's status becomes completed only in a sweep run and
\* only from approved: no request (create, update, approve, reject) writes
\* completed, and no pending or rejected allocation becomes completed.
C11_CompletedOnlyBySweep ==
    [][\A i \in 1..Len(allocations') :
          (/\ allocations'[i].status = "completed"
           /\ (i > Len(allocations) \/ allocations[i].status # "completed")) =>
             /\ i <= Len(allocations)
             /\ allocations[i].status = "approved"
             /\ last'.op = "sweep"]_vars

\* C12: an updateAllocation request changes no allocation's status and no
\* asset's owner.
C12_UpdateKeepsStatusAndOwner ==
    [][\A id \in RequestIds, body \in UpdateBodies :
          updateAllocation(id, body) =>
             /\ \A i \in AllocIds : allocations'[i].status = allocations[i].status
             /\ \A a \in AssetIds : assets'[a].owner = assets[a].owner]_vars

\* C14: when the asset write raises, or the referenced asset does not exist,
\* createAllocation, approveAllocation and rejectAllocation still store the
\* allocation in its new status and are served with a success result, and no
\* asset is changed.  (A step in which a store write raised is recorded with
\* last.fail.)
C14_AssetFaultTolerated ==
    [][\A fail \in BOOLEAN :
          (fail => last'.fail) =>
             /\ \A id \in AllocIds :
                   (fail \/ ~HasAsset(id)) =>
                      /\ approveAllocation(id, fail) =>
                            /\ allocations'[id].status = "approved"
                            /\ last'.op = "approve"
                            /\ assets' = assets
                      /\ rejectAllocation(id, fail) =>
                            /\ allocations'[id].status = "rejected"
                            /\ last'.op = "reject"
                            /\ assets' = assets
             /\ \A body \in CreateBodies :
                   (/\ ValidCreateBody(body)
                    /\ fail \/ body.asset \notin AssetIds
                    /\ createAllocation(body, fail)) =>
                         /\ Len(allocations') = Len(allocations) + 1
                         /\ allocations'[Len(allocations')] = NewAllocation(body)
                         /\ last'.op = "create"
                         /\ assets' = assets]_vars

\* An approval whose asset write raised: the allocation is approved, its
\* asset is still available and still carries no owner change.
C14_Witness ==
    /\ last.op = "approve" /\ last.fail
    /\ Len(allocations) = 1
    /\ HasAsset(1)
    /\ allocations[1].status = "approved"
    /\ allocations[1].allocationType = "Owner"
    /\ assets[allocations[1].asset].availablity = TRUE
    /\ assets[allocations[1].asset].owner = "u1"

\* C17: in a sweep run, a store call raising for one due allocation does not
\* end the run: every other due allocation, before or after it in the loop,
\* is still completed and its asset made available.  (A fault can only occur
\* at an allocation that is due; due is the set of those.)
C17_SweepIsolatesFailures ==
    [][LET due == {i \in AllocIds :
                     /\ allocations[i].status = "approved"
                     /\ parseDateFlexible(allocations[i].endTime) # NoDate
                     /\ parseDateFlexible(allocations[i].endTime) <= now}
       IN (last'.op = "sweep" /\ due # {}) =>
             \A fault \in [1..MaxAllocs -> FailKinds] :
                (/\ \A k \in 1..MaxAllocs : k \notin due => fault[k] = "none"
                 /\ processExpiredAllocations(fault)) =>
                   \A i \in due :
                      fault[i] = "none" =>
                         /\ allocations'[i].status = "completed"
                         /\ HasAsset(i) =>
                               assets'[allocations[i].asset].availablity = TRUE]_vars

\* The first due allocation failed and is still approved, the second one was
\* completed by the same run.
C17_Witness ==
    /\ last.op = "sweep" /\ last.fail
    /\ Len(allocations) = 2
    /\ allocations[1].status = "approved"
    /\ Expired(allocations[1], now)
    /\ allocations[2].status = "completed"
    /\ Expired(allocations[2], now)

\* C18: a sweep run skips an approved allocation whose end-time is a text
\* that is no date: the run goes on to its end, the allocation is left as it
\* was, the due allocations of the run are still completed, and when no
\* other allocation is due no asset is changed.
C18_UnparseableEndSkipped ==
    [][(/\ last'.op = "sweep"
        /\ \E i \in AllocIds :
              allocations[i].status = "approved" /\ allocations[i].endTime = BadEnd) =>
          \A fault \in [1..MaxAllocs -> FailKinds] :
             processExpiredAllocations(fault) =>
                \A i \in AllocIds :
                   (allocations[i].status = "approved" /\ allocations[i].endTime = BadEnd) =>
                      /\ allocations'[i] = allocations[i]
                      /\ \A j \in AllocIds \ {i} :
                            (/\ allocations[j].status = "approved"
                             /\ allocations[j].endTime.fmt = "iso"
                             /\ DateParse(allocations[j].endTime) <= now
                             /\ fault[j] = "none") =>
                               allocations'[j].status = "completed"
                      /\ (\A j \in AllocIds \ {i} :
                             allocations[j].status # "approved" \/ allocations[j].endTime = BadEnd)
                            => assets' = assets]_vars

\* A sweep run passed over an approved allocation with a text end-time, on an
\* unavailable asset, and completed the allocation after it.
C18_Witness ==
    /\ last.op = "sweep" /\ ~last.fail
    /\ last.batch = {2}
    /\ Len(allocations) = 2
    /\ allocations[1].status = "approved"
    /\ allocations[1].endTime = BadEnd
    /\ allocations[2].status = "completed"

\* ------------------------------------------------------------- date parsing
\* parseDateFlexible applied once to one stored end-time string: the day-first
\* strings of every valid calendar date of the years below, with either
\* separator, the same dates in ISO form, an absent field and a text.
Years == {2024, 2025}

DaysInMonth(y, m) ==
    IF m = 2 THEN (IF y % 4 = 0 THEN 29 ELSE 28)
    ELSE IF m \in {4, 6, 9, 11} THEN 30 ELSE 31

ValidDates == {d \in [y : Years, m : 1..12, d : 1..31] : d.d <= DaysInMonth(d.y, d.m)}

EndTimeInputs ==
    {SlashEnd(d.d, d.m, d.y) : d \in ValidDates}
       \cup {DashEnd(d.d, d.m, d.y) : d \in ValidDates}
       \cup {IsoEnd(d.y, d.m, d.d) : d \in ValidDates}
       \cup {NoEnd, BadEnd}

InitParse ==
    /\ allocations = << >>
    /\ assets = [a \in AssetIds |->
                   [availablity |-> TRUE, owner |-> "u1", purchaser |-> "u1",
                    allocation |-> NoId]]
    /\ now = 0
    /\ last = Last("init", NoId, NULL, FALSE, {})
    /\ \E v \in EndTimeInputs : parsed = [input |-> v, called |-> FALSE, output |-> NoDate]
    /\ call = Idle
    /\ race = NoRace
    /\ users = UserStore(AllUsers)
    /\ notify = NoNotify

Parse ==
    /\ ~parsed.called
    /\ parsed' = [parsed EXCEPT !.called = TRUE, !.output = parseDateFlexible(parsed.input)]
    /\ UNCHANGED <<allocations, assets, now, last, race, users, notify, call>>

NextParse == Parse

SpecParse == InitParse /\ [][NextParse]_vars

\* C19: parseDateFlexible reads every string dd/mm/yyyy or dd-mm-yyyy of a
\* valid calendar date as day dd of month mm of year yyyy, days 1 to 12
\* included: the result is the date the ISO string yyyy-mm-dd denotes.
C19_DayFirst ==
    (parsed.called /\ parsed.input.fmt \in {"slash", "dash"}) =>
        /\ parsed.output = DayNumber(parsed.input.c, parsed.input.b, parsed.input.a)
        /\ parsed.output = DateParse(IsoEnd(parsed.input.c, parsed.input.b, parsed.input.a))

\* ------------------------------------------------------------- interleaving
\* One decision request on allocation 1 and one sweep run, interleaved at
\* their awaits.  The store starts with one allocation on asset a1, pending
\* with the asset available or approved with the asset held, and the request
\* and the sweep have not started.
RaceOps == {"approve", "reject"}

RaceDocs ==
    {[status |-> st, asset |-> "a1", allocationType |-> ty, allocatedTo |-> "u2",
      allocatedBy |-> "u1", endTime |-> e] :
        st \in {"pending", "approved"}, ty \in {"Owner", "Temporary"},
        e \in {IsoEnd(2024, 1, 1), IsoEnd(2024, 1, 2), BadEnd}}

RaceAsset(doc) ==
    IF doc.status = "approved"
    THEN [availablity |-> FALSE,
          owner |-> IF doc.allocationType = "Owner" THEN doc.allocatedTo ELSE "u1",
          purchaser |-> "u1", allocation |-> 1]
    ELSE [availablity |-> TRUE, owner |-> "u1", purchaser |-> "u1", allocation |-> 1]

InitRace ==
    /\ \E doc \in RaceDocs :
          /\ allocations = <<doc>>
          /\ assets = [a \in AssetIds |-> RaceAsset(doc)]
    /\ now \in 0..MaxNow
    /\ last = Last("init", NoId, NULL, FALSE, {})
    /\ parsed = NoCall
    /\ call = Idle
    /\ \E op \in RaceOps :
          race = [op |-> op, hpc |-> "find", spc |-> "find", batch |-> {}, t |-> 0]
    /\ users = UserStore(AllUsers)
    /\ notify = NoNotify

\* The steps, as functions of the store and the two positions.
\* allocation.js 441 / 601: Allocation.findById(id).
HandlerFind(st) == [st EXCEPT !.race.hpc = "save"]

\* allocation.js 445-449 / 605-611: the status is set on the document read
\* by the request and saved; save writes the modified paths.
HandlerSave(st) ==
    [st EXCEPT !.allocations[1].status =
                   IF st.race.op = "approve" THEN "approved" ELSE "rejected",
               !.race.hpc = "asset"]

\* Variant: the request ends without its asset write.
HandlerAsset_Skipped(st) == [st EXCEPT !.race.hpc = "done"]

\* allocation.js 452-465 / 614-624: the asset write.
HandlerAsset(st) ==
    LET alloc == st.allocations[1]
        asset == st.assets[alloc.asset]
    IN [st EXCEPT !.assets = AssetUpdate(st.assets, alloc.asset, FALSE,
                                 IF st.race.op = "approve"
                                 THEN OnAllocationApproved(asset, alloc, 1)
                                 ELSE OnAllocationRejected(asset)),
                  !.race.hpc = "done"]

\* part_000 41-60: now is read, the query runs, the end-time of the document
\* found is parsed and compared.
SweepFind(st, t) ==
    LET batch == SweepQuery(st.allocations)
    IN [st EXCEPT !.race.batch = batch,
                  !.race.t = t,
                  !.race.spc = IF 1 \in batch /\ Expired(st.allocations[1], t)
                               THEN "asset" ELSE "done"]

\* part_000 63-69: the asset is made available.
SweepAsset(st) ==
    LET alloc == st.allocations[1]
    IN [st EXCEPT !.assets = AssetUpdate(st.assets, alloc.asset, FALSE,
                                 OnAllocationCompleted(st.assets[alloc.asset])),
                  !.race.spc = "save"]

\* part_000 72-74: completed is set on the document the query returned and
\* saved, whatever the stored status has become.
SweepSave(st) ==
    [st EXCEPT !.allocations[1].status = "completed", !.race.spc = "done"]

HandlerStep(st) ==
    CASE st.race.hpc = "find" -> HandlerFind(st)
      [] st.race.hpc = "save" -> HandlerSave(st)
      [] st.race.hpc = "asset" -> HandlerAsset(st)
      [] OTHER -> st

SweepStep(st, t) ==
    CASE st.race.spc = "find" -> SweepFind(st, t)
      [] st.race.spc = "asset" -> SweepAsset(st)
      [] st.race.spc = "save" -> SweepSave(st)
      [] OTHER -> st

RaceState == [allocations |-> allocations, assets |-> assets, race |-> race]

RaceBecomes(st) ==
    /\ allocations' = st.allocations
    /\ assets' = st.assets
    /\ race' = st.race
    /\ UNCHANGED <<now, last, parsed, users, notify, call>>

RaceHandlerFind == race.hpc = "find" /\ RaceBecomes(HandlerFind(RaceState))
RaceHandlerSave == race.hpc = "save" /\ RaceBecomes(HandlerSave(RaceState))
RaceHandlerAsset == race.hpc = "asset" /\ RaceBecomes(HandlerAsset(RaceState))
RaceSweepFind == race.spc = "find" /\ RaceBecomes(SweepFind(RaceState, now))
RaceSweepAsset == race.spc = "asset" /\ RaceBecomes(SweepAsset(RaceState))
RaceSweepSave == race.spc = "save" /\ RaceBecomes(SweepSave(RaceState))

NextRace ==
    \/ RaceHandlerFind \/ RaceHandlerSave \/ RaceHandlerAsset
    \/ RaceSweepFind \/ RaceSweepAsset \/ RaceSweepSave

SpecRace == InitRace /\ [][NextRace]_vars

RaceDone == race.op # "none" /\ race.hpc = "done" /\ race.spc = "done"

\* The orders in which the three steps of the request and the (at most)
\* three steps of the sweep can be taken.
Schedules ==
    {s \in [1..6 -> {"handler", "sweep"}] :
        Cardinality({k \in 1..6 : s[k] = "handler"}) = 3}

RECURSIVE RunRace(_, _, _, _)
RunRace(st, s, k, t) ==
    IF k > 6 THEN st
    ELSE RunRace(IF s[k] = "handler" THEN HandlerStep(st) ELSE SweepStep(st, t),
                 s, k + 1, t)

\* The availability flag of allocation 1's asset agrees with the status of
\* allocation 1: unavailable exactly when the allocation is approved.
FlagAgrees(st) ==
    (st.assets[st.allocations[1].asset].availablity = FALSE)
        <=> (st.allocations[1].status = "approved")

Step(name, kind, ids) == [name |-> name, kind |-> kind, ids |-> ids]

DecisionSteps ==
    <<Step("tokensTo", "tokens", "to"), Step("pushTo", "push", "to"),
      Step("tokensBy", "tokens", "by"), Step("pushBy", "push", "by"),
      Step("emailsTo", "emails", "to"), Step("mailTo", "mail", "to"),
      Step("emailsBy", "emails", "by"), Step("mailBy", "mail", "by")>>

UpdateSteps ==
    <<Step("tokens", "tokens", "all"), Step("push", "push", "all"),
      Step("emails", "emails", "all"), Step("mail", "mail", "all")>>

CreateSteps == <<Step("asset", "asset", "all")>> \o UpdateSteps

StepsOf(op) ==
    CASE op = "create" -> CreateSteps
      [] op = "update" -> UpdateSteps
      [] OTHER -> DecisionSteps

StepNames(op) == {StepsOf(op)[k].name : k \in 1..Len(StepsOf(op))}
Lookups(op) ==
    {StepsOf(op)[k].name : k \in {j \in 1..Len(StepsOf(op)) :
                                      StepsOf(op)[j].kind \in {"tokens", "emails"}}}

\* Variant: only the sends are inside the try block, the lookups are not.
TrySteps_SendsOnly(op) ==
    {StepsOf(op)[k].name : k \in {j \in 1..Len(StepsOf(op)) :
                                      StepsOf(op)[j].kind \in {"push", "mail"}}}

\* The calls the handler's try / catch encloses: all of them.
TrySteps(op) == StepNames(op)

\* The recipient lists the handler builds from the populated allocation.
Recipients(doc, as, ids) ==
    LET to == {doc.allocatedTo}
        by == {doc.allocatedBy} \cup
              (IF doc.asset \in DOMAIN as
               THEN {as[doc.asset].owner, as[doc.asset].purchaser} ELSE {})
    IN CASE ids = "to" -> to
         [] ids = "by" -> by
         [] OTHER -> to \cup by

gatherTokensForUserIds(ids, us) == UNION {us[u].fcmTokens : u \in ids}
gatherEmailsForUserIds(ids, us) == {Email(u) : u \in ids}

\* The calls from step k on.  A lookup that raises ends the try block (the
\* calls after it are not made) and, outside a try block, the handler; a
\* send is made only to a non-empty result and reports its failure in its
\* return value.
RECURSIVE Dispatch(_, _, _, _, _, _, _)
Dispatch(op, k, fault, doc, as, us, acc) ==
    IF k > Len(StepsOf(op)) \/ acc.raised THEN acc
    ELSE LET s == StepsOf(op)[k]
             ids == Recipients(doc, as, s.ids)
             seen == [acc EXCEPT !.reached = @ \cup {s.name}]
         IN CASE s.kind \in {"tokens", "emails", "asset"} ->
                   IF fault = s.name
                   THEN [seen EXCEPT !.failed = @ \cup {s.name},
                                     !.targets = IF s.kind = "asset" THEN @ ELSE @ \cup ids,
                                     !.raised = TRUE,
                                     !.escaped = s.name \notin TrySteps(op)]
                   ELSE Dispatch(op, k + 1, fault, doc, as, us,
                           [seen EXCEPT
                               !.targets = IF s.kind = "asset" THEN @ ELSE @ \cup ids,
                               !.found = CASE s.kind = "tokens" -> gatherTokensForUserIds(ids, us)
                                           [] s.kind = "emails" -> gatherEmailsForUserIds(ids, us)
                                           [] OTHER -> {}])
              [] OTHER ->
                   IF acc.found = {}
                   THEN Dispatch(op, k + 1, fault, doc, as, us, acc)
                   ELSE Dispatch(op, k + 1, fault, doc, as, us,
                           [seen EXCEPT !.failed = IF fault = s.name THEN @ \cup {s.name} ELSE @])

\* The notification part and the response that follows it.
Notified(op, id, wrote, fault, doc, as, us) ==
    LET run == Dispatch(op, 1, fault, doc, as, us,
                        [reached |-> {}, failed |-> {}, targets |-> {}, found |-> {},
                         raised |-> FALSE, escaped |-> FALSE])
    IN [op |-> op, id |-> id, wrote |-> wrote, fault |-> fault,
        reached |-> run.reached, failed |-> run.failed, targets |-> run.targets,
        response |-> IF run.escaped THEN 500 ELSE IF op = "create" THEN 201 ELSE 200]

\* One request, notification part included, on a store that holds one
\* allocation; the push tokens of the users vary.
NotifyDocs ==
    {[status |-> st, asset |-> a, allocationType |-> ty, allocatedTo |-> "u2",
      allocatedBy |-> "u1", endTime |-> IsoEnd(2024, 1, 1)] :
        st \in {"pending", "approved"}, ty \in {"Owner", "Temporary"},
        a \in {"a1", MissingAsset}}

TokenHolders == {{}, {"u1"}, AllUsers}

InitNotify ==
    /\ \E doc \in NotifyDocs :
          /\ allocations = <<doc>>
          /\ assets = [a \in AssetIds |->
                         IF doc.asset = a THEN RaceAsset(doc)
                         ELSE [availablity |-> TRUE, owner |-> "u1", purchaser |-> "u1",
                               allocation |-> NoId]]
    /\ now = 0
    /\ last = Last("init", NoId, NULL, FALSE, {})
    /\ parsed = NoCall
    /\ call = Idle
    /\ race = NoRace
    /\ \E holders \in TokenHolders : users = UserStore(holders)
    /\ notify = NoNotify

NotifyCreate ==
    \E body \in CreateBodies, fault \in StepNames("create") \cup {"none"} :
        /\ notify.op = "none"
        /\ ValidCreateBody(body)
        /\ createAllocation(body, FALSE)
        /\ notify' = Notified("create", Len(allocations'), NewAllocation(body).status, fault,
                               allocations'[Len(allocations')], assets', users)
        /\ UNCHANGED <<parsed, race, users, call>>

NotifyUpdate ==
    \E body \in UpdateBodies, fault \in StepNames("update") \cup {"none"} :
        /\ notify.op = "none"
        /\ body.status \in Statuses \cup {NULL}
        /\ updateAllocation(1, body)
        /\ notify' = Notified("update", 1, body.status, fault, allocations'[1], assets', users)
        /\ UNCHANGED <<parsed, race, users, call>>

NotifyApprove ==
    \E fault \in StepNames("approve") \cup {"none"} :
        /\ notify.op = "none"
        /\ approveAllocation(1, FALSE)
        /\ notify' = Notified("approve", 1, "approved", fault, allocations'[1], assets', users)
        /\ UNCHANGED <<parsed, race, users, call>>

NotifyReject ==
    \E fault \in StepNames("reject") \cup {"none"} :
        /\ notify.op = "none"
        /\ rejectAllocation(1, FALSE)
        /\ notify' = Notified("reject", 1, "rejected", fault, allocations'[1], assets', users)
        /\ UNCHANGED <<parsed, race, users, call>>

NextNotify == NotifyCreate \/ NotifyUpdate \/ NotifyApprove \/ NotifyReject

SpecNotify == InitNotify /\ [][NextNotify]_vars

\* C13: whichever call of the notification part fails (a contact lookup
\* raising, a push send or an email send failing) and also when no user has
\* a push token, the request (create, update, approve, reject) has stored the
\* status it was to store and is answered with its success code.
C13_NotifyFailureHarmless ==
    notify.op # "none" =>
        /\ notify.response = IF notify.op = "create" THEN 201 ELSE 200
        /\ notify.id \in AllocIds
        /\ notify.wrote # NULL => allocations[notify.id].status = notify.wrote
        /\ last.op = notify.op /\ last.id = notify.id

\* An approval whose first token lookup raised: the allocation is approved
\* and the answer is 200.
C13_Witness ==
    /\ notify.op = "approve"
    /\ notify.fault = "tokensTo"
    /\ "tokensTo" \in notify.failed
    /\ notify.response = 200
    /\ allocations[1].status = "approved"

\* C15: when the user lookup of gatherTokensForUserIds or
\* gatherEmailsForUserIds raises, the handler goes on: every other lookup of
\* its notification part is still made and every lookup that found a
\* contact is followed by its send.
C15_LookupFailureIsolated ==
    (notify.op # "none" /\ notify.fault \in Lookups(notify.op)) =>
        /\ Lookups(notify.op) \subseteq notify.reached
        /\ \A k \in 1..Len(StepsOf(notify.op)) :
              LET s == StepsOf(notify.op)[k]
                  ids == Recipients(allocations[notify.id], assets, s.ids)
              IN (s.kind = "mail" /\ StepsOf(notify.op)[k - 1].name # notify.fault
                    /\ gatherEmailsForUserIds(ids, users) # {})
                     => s.name \in notify.reached

\* C20: after every approveAllocation and rejectAllocation answered with
\* success, the users whose contacts were looked up include the recipient,
\* the requester, the owner and the purchaser of the asset (when the asset
\* exists) and every user with role admin.
C20_NotifiesStakeholdersAndAdmins ==
    (notify.op \in {"approve", "reject"} /\ notify.response = 200) =>
        LET doc == allocations[notify.id]
        IN /\ doc.allocatedTo \in notify.targets
           /\ doc.allocatedBy \in notify.targets
           /\ HasAsset(notify.id) =>
                 /\ assets[doc.asset].owner \in notify.targets
                 /\ assets[doc.asset].purchaser \in notify.targets
           /\ \A u \in AllUsers : Role(u) = "admin" => u \in notify.targets

\* C21: for an allocation of type Owner with a recipient on an existing
\* asset: an approval of the pending allocation makes the recipient the
\* asset's owner and the asset unavailable; a later sweep run at or after the
\* allocation's end-time (no store call raising) makes the asset available
\* and the allocation completed.
C21_OwnerScenario ==
    [][/\ \A id \in AllocIds :
             (/\ allocations[id].status = "pending"
              /\ allocations[id].allocationType = "Owner"
              /\ HasAsset(id)
              /\ approveAllocation(id, FALSE)) =>
                 /\ allocations'[id].status = "approved"
                 /\ assets'[allocations[id].asset].owner = allocations[id].allocatedTo
                 /\ assets'[allocations[id].asset].availablity = FALSE
       /\ (last'.op = "sweep" /\ processExpiredAllocations(NoFault)) =>
             \A i \in AllocIds :
                (/\ allocations[i].status = "approved"
                 /\ allocations[i].allocationType = "Owner"
                 /\ HasAsset(i)
                 /\ allocations[i].endTime.fmt = "iso"
                 /\ DateParse(allocations[i].endTime) <= now) =>
                    /\ allocations'[i].status = "completed"
                    /\ assets'[allocations[i].asset].availablity = TRUE]_vars

\* The whole scenario has run on allocation 1: created with type Owner for
\* u2, approved (u2 owns the asset), then completed by a sweep run that left
\* the asset available.
C21_Witness ==
    /\ last.op = "sweep" /\ ~last.fail
    /\ last.batch = {1}
    /\ Len(allocations) = 1
    /\ allocations[1].allocationType = "Owner"
    /\ allocations[1].allocatedTo = "u2"
    /\ allocations[1].status = "completed"
    /\ assets[allocations[1].asset].owner = "u2"
    /\ assets[allocations[1].asset].availablity = TRUE

\* C26: createAllocation leaves the availability flag and the owner of every
\* asset as they were; of the referenced asset it writes the allocation
\* back-reference only, and no other asset is written at all.
C26_CreateFrame ==
    [][\A body \in CreateBodies, fail \in BOOLEAN :
          createAllocation(body, fail) =>
             \A a \in AssetIds :
                /\ assets'[a].availablity = assets[a].availablity
                /\ assets'[a].owner = assets[a].owner
                /\ assets'[a].purchaser = assets[a].purchaser
                /\ a # body.asset => assets'[a] = assets[a]]_vars

\* A second allocation was created on an asset that an approved ownership
\* transfer had made unavailable and given to u2: the back-reference now
\* names the new allocation, flag and owner are as the approval left them.
C26_Witness ==
    /\ last.op = "create" /\ ~last.fail
    /\ last.id = 2
    /\ allocations[2].asset = "a1"
    /\ assets["a1"].allocation = 2
    /\ assets["a1"].availablity = FALSE
    /\ assets["a1"].owner = "u2"

\* C30: a rejectAllocation request and a sweep run change nothing of an
\* asset but its availability flag: owner, purchaser and allocation
\* back-reference of every asset are as before, so the owner written by the
\* approval of an Owner-type allocation stays.
C30_RejectSweepFrame ==
    [][(last'.op \in {"reject", "sweep"} /\ (Reject \/ Sweep)) =>
          \A a \in AssetIds :
             /\ assets'[a].owner = assets[a].owner
             /\ assets'[a].purchaser = assets[a].purchaser
             /\ assets'[a].allocation = assets[a].allocation]_vars

\* An Owner-type allocation for u2 was approved (u2 became the owner) and
\* then rejected: the asset is available again and still owned by u2, not
\* by u1 who owned it before the approval.
C30_Witness ==
    /\ last.op = "reject" /\ ~last.fail
    /\ last.id \in AllocIds
    /\ allocations[last.id].allocationType = "Owner"
    /\ allocations[last.id].status = "rejected"
    /\ allocations[last.id].asset = "a1"
    /\ assets["a1"].availablity = TRUE
    /\ assets["a1"].owner = "u2"
    /\ assets["a1"].allocation = last.id

\* C29: a sweep run never moves an approved allocation that has no end-time,
\* or an end-time that does not parse, to completed, and it leaves the
\* asset of such an allocation unavailable: only a request changes it.
C29_UndatedStaysHeld ==
    [][(last'.op = "sweep" /\ Sweep) =>
          \A i \in AllocIds :
             (/\ allocations[i].status = "approved"
              /\ HasAsset(i)
              /\ \/ allocations[i].endTime.fmt = "none"
                 \/ parseDateFlexible(allocations[i].endTime) = NoDate) =>
                /\ allocations'[i].status = "approved"
                /\ assets[allocations[i].asset].availablity = FALSE =>
                      assets'[allocations[i].asset].availablity = FALSE]_vars

\* C28: in a sweep run, every due allocation whose unavailable asset the run
\* has set available (its asset write did not raise) is completed when the
\* run ends,
\* also when the save of the allocation raises.
C28_FreedMeansCompleted ==
    [][LET due == {i \in SweepQuery(allocations) : Expired(allocations[i], now)}
       IN (last'.op = "sweep" /\ due # {}) =>
             \A fault \in [1..MaxAllocs -> FailKinds] :
                ((\A k \in 1..MaxAllocs : k \notin due => fault[k] = "none")
                  /\ processExpiredAllocations(fault)) =>
                   \A i \in due :
                      (/\ HasAsset(i)
                       /\ assets[allocations[i].asset].availablity = FALSE
                       /\ fault[i] # "asset") =>
                         /\ assets'[allocations[i].asset].availablity = TRUE
                         /\ allocations'[i].status = "completed"]_vars

\* C27: when an approveAllocation request and a sweep run that read the
\* allocation as approved and due have both finished, whatever the order of
\* their steps, the asset is unavailable only if the stored status is
\* approved: the run never ends with the allocation completed and its asset
\* unavailable.
C27_ApproveRaceAgrees ==
    (/\ RaceDone /\ race.op = "approve"
     /\ race.batch = {1}
     /\ Expired(allocations[1], race.t)) =>
        /\ assets[allocations[1].asset].availablity = FALSE =>
              allocations[1].status = "approved"
        /\ ~(/\ allocations[1].status = "completed"
             /\ assets[allocations[1].asset].availablity = FALSE)

\* ------------------------------------------------------------- push send
\* One call of sendFcmToTokens.  Its surroundings: whether the Firebase app
\* is initialised already (admin.apps.length), what the environment variable
\* FIREBASE_SERVICE_ACCOUNT_JSON holds, and what the provider's send call
\* does with the message.
MaxTokens == 2

\* A token argument is an array; "" stands for a falsy entry.
TokenValues == {"t1", "t2", ""}
TokenLists == UNION {[1..n -> TokenValues] : n \in 0..MaxTokens}

\* The environment variable: not set, not JSON, the JSON text null, a
\* service account whose credentials the JWT client refuses, one that
\* initializeApp refuses, a good one.
FirebaseEnvs == {"unset", "notjson", "null", "badcreds", "initfails", "good"}

\* The provider's send call raises, or answers with the number of tokens
\* it delivered to.
SendRaises == -1
SendOutcomes == {SendRaises} \cup (0..MaxTokens)

Returned(v) == [raised |-> FALSE, value |-> v]
Raised == [raised |-> TRUE, value |-> NULL]

\* JSON.parse of the text null yields null, and reading
\* serviceAccount.private_key of it raises outside every try block.
initFirebaseAdmin(apps, env) ==
    IF apps THEN Returned("admin")
    ELSE IF env = "unset" THEN Returned(NULL)
    ELSE IF env = "notjson" THEN Returned(NULL)
    ELSE IF env = "null" THEN Raised
    ELSE IF env = "badcreds" THEN Returned(NULL)
    ELSE IF env = "initfails" THEN Returned(NULL)
    ELSE Returned("admin")

FcmResult(raised, sends, ok, failed) ==
    [raised |-> raised, sends |-> sends, successCount |-> ok, failureCount |-> failed]

ValidTokens(tokens) == SelectSeq(tokens, LAMBDA t : t # "")

sendFcmToTokens(tokens, apps, env, send) ==
    LET admin == initFirebaseAdmin(apps, env)
        validTokens == ValidTokens(tokens)
    IN IF admin.raised THEN FcmResult(TRUE, 0, 0, 0)
       ELSE IF admin.value = NULL THEN FcmResult(FALSE, 0, 0, Len(tokens))
       ELSE IF Len(validTokens) = 0 THEN FcmResult(FALSE, 0, 0, 0)
       ELSE IF send = SendRaises THEN FcmResult(FALSE, 1, 0, Len(validTokens))
       ELSE LET ok == IF send < Len(validTokens) THEN send ELSE Len(validTokens)
            IN FcmResult(FALSE, 1, ok, Len(validTokens) - ok)

InitFcm ==
    /\ allocations = << >>
    /\ assets = [a \in AssetIds |->
                   [availablity |-> TRUE, owner |-> "u1", purchaser |-> "u1",
                    allocation |-> NoId]]
    /\ now = 0
    /\ last = Last("init", NoId, NULL, FALSE, {})
    /\ parsed = NoCall
    /\ race = NoRace
    /\ users = UserStore(AllUsers)
    /\ notify = NoNotify
    /\ \E tokens \in TokenLists, apps \in BOOLEAN, env \in FirebaseEnvs,
          send \in SendOutcomes :
          call = [fn |-> "sendFcmToTokens", tokens |-> tokens, apps |-> apps,
                  env |-> env, send |-> send, done |-> FALSE,
                  result |-> FcmResult(FALSE, 0, 0, 0)]

SendFcm ==
    /\ call.fn = "sendFcmToTokens" /\ ~call.done
    /\ call' = [call EXCEPT !.done = TRUE,
                             !.result = sendFcmToTokens(call.tokens, call.apps,
                                                        call.env, call.send)]
    /\ UNCHANGED <<allocations, assets, now, last, parsed, race, users, notify>>

NextFcm == SendFcm

SpecFcm == InitFcm /\ [][NextFcm]_vars

\* C25: sendFcmToTokens never raises to its caller; when the provider is
\* not initialised (no app yet and the environment does not yield one) it
\* makes no send call and reports successCount 0 and failureCount = the
\* number of tokens given; when the provider's send call raises it reports
\* successCount 0 and failureCount = the number of valid tokens.
C25_FcmNeverRaises ==
    (call.fn = "sendFcmToTokens" /\ call.done) =>
        /\ ~call.result.raised
        /\ (~call.apps /\ call.env # "good") =>
              /\ call.result.sends = 0
              /\ call.result.successCount = 0
              /\ call.result.failureCount = Len(call.tokens)
        /\ ((call.apps \/ call.env = "good") /\ call.send = SendRaises) =>
              /\ call.result.successCount = 0
              /\ call.result.failureCount = Len(ValidTokens(call.tokens))

\* ------------------------------------------------------------- email fan-out
\* One call of sendEmailsToRecipients.  recipients.map starts one sendEmail
\* per recipient before anything is awaited; the attempts settle in any
\* order; Promise.allSettled resumes the function when all have settled.
\* (The branch for a sendEmail that is no function cannot be taken:
\* utils/sendMail.js exports an async function or fails to load.)
MaxRecipients == 2

Emails == {"e1", "e2"}
RecipientLists == UNION {[1..n -> Emails] : n \in 0..MaxRecipients}

\* transporter.sendMail resolves, rejects with an Error, or rejects with a
\* value that has no message to read (the catch handler then raises itself).
MailOutcomes == {"ok", "error", "nullerror"}

\* What an attempt's promise settles to after its then / catch handlers.
Attempt(email, outcome) ==
    IF outcome = "ok" THEN [status |-> "fulfilled", ok |-> TRUE, email |-> email]
    ELSE IF outcome = "error" THEN [status |-> "fulfilled", ok |-> FALSE, email |-> email]
    ELSE [status |-> "rejected", ok |-> FALSE, email |-> NULL]

\* Variant: the function resumes as soon as one attempt has settled.
AllSettled_First(settled, n) == settled # {}

AllSettled(settled, n) == settled = 1..n

RECURSIVE Aggregate(_, _, _, _)
\* The loop over the results, in recipient order.
Aggregate(i, results, settled, acc) ==
    IF i > Len(results) THEN [acc EXCEPT !.failed = Len(acc.failures)]
    ELSE IF i \notin settled THEN Aggregate(i + 1, results, settled, acc)
    ELSE IF results[i].status = "fulfilled" /\ results[i].ok
         THEN Aggregate(i + 1, results, settled, [acc EXCEPT !.sent = @ + 1])
         ELSE Aggregate(i + 1, results, settled,
                        [acc EXCEPT !.failures = Append(@, results[i])])

NoSummary == [sent |-> 0, failed |-> 0, failures |-> << >>]

InitMail ==
    /\ allocations = << >>
    /\ assets = [a \in AssetIds |->
                   [availablity |-> TRUE, owner |-> "u1", purchaser |-> "u1",
                    allocation |-> NoId]]
    /\ now = 0
    /\ last = Last("init", NoId, NULL, FALSE, {})
    /\ parsed = NoCall
    /\ race = NoRace
    /\ users = UserStore(AllUsers)
    /\ notify = NoNotify
    /\ \E recipients \in RecipientLists :
          \E outcomes \in [1..Len(recipients) -> MailOutcomes] :
             call = [fn |-> "sendEmailsToRecipients", recipients |-> recipients,
                     outcomes |-> outcomes, pc |-> "start", started |-> {},
                     settled |-> {}, summary |-> NoSummary]

MailBecomes(c) ==
    /\ call' = c
    /\ UNCHANGED <<allocations, assets, now, last, parsed, race, users, notify>>

\* Entry: no recipients, return at once; else every attempt is started.
MailStart ==
    /\ call.fn = "sendEmailsToRecipients" /\ call.pc = "start"
    /\ MailBecomes(IF Len(call.recipients) = 0
                   THEN [call EXCEPT !.pc = "done"]
                   ELSE [call EXCEPT !.pc = "wait",
                                     !.started = 1..Len(call.recipients)])

\* One attempt settles.
MailSettle ==
    /\ call.fn = "sendEmailsToRecipients" /\ call.pc = "wait"
    /\ \E i \in call.started \ call.settled :
          MailBecomes([call EXCEPT !.settled = @ \cup {i}])

\* Promise.allSettled resolves; the results are counted.
MailAggregate ==
    /\ call.fn = "sendEmailsToRecipients" /\ call.pc = "wait"
    /\ AllSettled(call.settled, Len(call.recipients))
    /\ MailBecomes([call EXCEPT
          !.pc = "done",
          !.summary = Aggregate(1, [i \in 1..Len(call.recipients) |->
                                      Attempt(call.recipients[i], call.outcomes[i])],
                                call.settled, NoSummary)])

NextMail == MailStart \/ MailSettle \/ MailAggregate

SpecMail == InitMail /\ [][NextMail]_vars

\* C24: when sendEmailsToRecipients returns, every recipient's send has been
\* attempted and has settled, sent + failed is the number of recipients,
\* sent is the number of recipients whose own send succeeded (no failure of
\* another recipient takes a success away), and failures has exactly one
\* entry per recipient whose send failed.
C24_FanOut ==
    (call.fn = "sendEmailsToRecipients" /\ call.pc = "done") =>
        LET n == Len(call.recipients)
            failedOnes == {i \in 1..n : call.outcomes[i] # "ok"}
        IN /\ call.started = 1..n
           /\ call.settled = 1..n
           /\ call.summary.sent + call.summary.failed = n
           /\ call.summary.sent = n - Cardinality(failedOnes)
           /\ call.summary.failed = Cardinality(failedOnes)
           /\ Len(call.summary.failures) = Cardinality(failedOnes)
           /\ \A i \in failedOnes : call.outcomes[i] = "error" =>
                 \E k \in 1..Len(call.summary.failures) :
                    call.summary.failures[k].email = call.recipients[i]

\* A call with two recipients has returned: the first send failed, the
\* second succeeded and is counted as sent.
C24_Witness ==
    /\ call.fn = "sendEmailsToRecipients" /\ call.pc = "done"
    /\ Len(call.recipients) = 2
    /\ call.outcomes[1] = "error" /\ call.outcomes[2] = "ok"
    /\ call.summary.sent = 1
    /\ call.summary.failed = 1
    /\ call.summary.failures[1].email = call.recipients[1]

\* ------------------------------------------------------------- recipient resolution
\* One call of normalizeUserIds, gatherTokensForUserIds or
\* gatherEmailsForUserIds on an array of messy user identifiers and a user
\* store.  "u1" and "u2" stand for two 24-digit hex strings, Bad for a text
\* that is no ObjectId, None for a field that is absent.
MaxInput == 2

None == "none"
Bad == "bad"
ObjectIdIsValid(v) == v \in Users

\* An input value: its JavaScript kind and shape and the identities it holds.
\*   null    null, undefined, "" or 0
\*   bare    a string that is the text _id alone (pad: with blanks around it)
\*   object  an object or document with the fields _id and / or id
\*   json    a string that is the JSON text of such an object
\*   oid     a string holding ObjectId('<_id>')
\*   field   a string holding _id: <_id> among other text
\*   text    any other string
\*   number  a number other than 0
Value(kind, _id, id, pad) == [kind |-> kind, _id |-> _id, id |-> id, pad |-> pad]

InputValues ==
    { Value("null", None, None, FALSE),
      Value("bare", "u1", None, FALSE), Value("bare", "u2", None, FALSE),
      Value("bare", "u1", None, TRUE), Value("bare", Bad, None, FALSE),
      Value("object", "u1", None, FALSE), Value("object", None, "u2", FALSE),
      Value("object", "u2", "u2", FALSE), Value("object", Bad, None, FALSE),
      Value("object", None, None, FALSE),
      Value("json", "u1", None, FALSE), Value("json", None, "u2", FALSE),
      Value("json", Bad, None, FALSE), Value("json", None, None, FALSE),
      Value("oid", "u1", None, FALSE), Value("field", "u2", None, FALSE),
      Value("text", None, None, FALSE), Value("number", None, None, FALSE) }

InputLists == UNION {[1..n -> InputValues] : n \in 0..MaxInput}

\* s.trim() of a string value.
Trim(v) == [v EXCEPT !.pad = FALSE]

\* mongoose.Types.ObjectId.isValid(s) of a string value: the whole string
\* is an id.
StringIsValid(v) == v.kind = "bare" /\ ~v.pad /\ ObjectIdIsValid(v._id)

\* The callback of input.map: the id string a value yields, or None (null).
NormalizeOne(v) ==
    IF v.kind = "null" THEN None
    ELSE IF v.kind = "object"
    THEN IF v._id # None THEN v._id
         ELSE IF v.id # None THEN v.id
         ELSE None
    ELSE IF v.kind = "number" THEN None
    ELSE LET s == Trim(v)
             maybe == IF s._id # None THEN s._id ELSE s.id
         IN IF StringIsValid(s) THEN s._id
            ELSE IF s.kind = "json" /\ maybe # None /\ ObjectIdIsValid(maybe) THEN maybe
            ELSE IF s.kind = "oid" /\ ObjectIdIsValid(s._id) THEN s._id
            ELSE IF s.kind = "field" /\ ObjectIdIsValid(s._id) THEN s._id
            ELSE None

Range(seq) == {seq[i] : i \in 1..Len(seq)}

RECURSIVE NormalizeEach(_)
\* input.map(...): the callback applied to every element, in order.
NormalizeEach(input) ==
    IF input = << >> THEN << >>
    ELSE <<NormalizeOne(Head(input))>> \o NormalizeEach(Tail(input))

\* Variant: nothing is removed.
Unique_KeepsAll(seq) == seq

RECURSIVE Unique(_)
\* Array.from(new Set(seq)): the first occurrence of each value, in order.
Unique(seq) ==
    IF seq = << >> THEN << >>
    ELSE LET front == Unique(SubSeq(seq, 1, Len(seq) - 1))
             x == seq[Len(seq)]
         IN IF x \in Range(front) THEN front ELSE Append(front, x)

\* Variant: the result is not checked again.
FilterValid_KeepsAll(seq) == seq

FilterValid(seq) == SelectSeq(seq, ObjectIdIsValid)

normalizeUserIds(input) ==
    LET ids == SelectSeq(NormalizeEach(input), LAMBDA x : x # None)
    IN FilterValid(Unique(ids))

\* A user document: _id, fcmTokens ("" is a falsy entry) and email.
UserDoc(id, fcmTokens, email) == [id |-> id, fcmTokens |-> fcmTokens, email |-> email]

\* The stores tried: one token per user; tokens repeated within a user and
\* shared between users; a store that lacks u1.
UserStores ==
    { <<UserDoc("u1", <<"t1">>, "e1"), UserDoc("u2", <<"t2">>, "e2")>>,
      <<UserDoc("u1", <<"t1", "t1">>, "e1"), UserDoc("u2", <<"t1", "", "t2">>, "e2")>>,
      <<UserDoc("u2", <<"t2">>, "e2")>> }

\* User.find({ _id: { $in: ids } }).
FindUsers(ids, store) == SelectSeq(store, LAMBDA u : u.id \in Range(ids))

RECURSIVE FlatTokens(_)
FlatTokens(docs) ==
    IF docs = << >> THEN << >> ELSE Head(docs).fcmTokens \o FlatTokens(Tail(docs))

GatherTokens(userIds, store) ==
    LET ids == normalizeUserIds(userIds)
    IN IF Len(ids) = 0 THEN << >>
       ELSE Unique(SelectSeq(FlatTokens(FindUsers(ids, store)), LAMBDA t : t # ""))

RECURSIVE EmailsOf(_)
\* users.map(...): the address of every document found, in order.
EmailsOf(docs) ==
    IF docs = << >> THEN << >> ELSE <<Head(docs).email>> \o EmailsOf(Tail(docs))

GatherEmails(userIds, store) ==
    LET ids == normalizeUserIds(userIds)
    IN IF Len(ids) = 0 THEN << >>
       ELSE Unique(EmailsOf(FindUsers(ids, store)))

InitResolve ==
    /\ allocations = << >>
    /\ assets = [a \in AssetIds |->
                   [availablity |-> TRUE, owner |-> "u1", purchaser |-> "u1",
                    allocation |-> NoId]]
    /\ now = 0
    /\ last = Last("init", NoId, NULL, FALSE, {})
    /\ parsed = NoCall
    /\ race = NoRace
    /\ users = UserStore(AllUsers)
    /\ notify = NoNotify
    /\ \E input \in InputLists, store \in UserStores :
          call = [fn |-> "resolve", input |-> input, store |-> store,
                  done |-> "none", result |-> << >>]

Returns(fn, result) ==
    /\ call' = [call EXCEPT !.done = fn, !.result = result]
    /\ UNCHANGED <<allocations, assets, now, last, parsed, race, users, notify>>

Normalize ==
    /\ call.fn = "resolve" /\ call.done = "none"
    /\ Returns("normalizeUserIds", normalizeUserIds(call.input))
ResolveTokens ==
    /\ call.fn = "resolve" /\ call.done = "none"
    /\ Returns("gatherTokensForUserIds", GatherTokens(call.input, call.store))
ResolveEmails ==
    /\ call.fn = "resolve" /\ call.done = "none"
    /\ Returns("gatherEmailsForUserIds", GatherEmails(call.input, call.store))

NextResolve == Normalize \/ ResolveTokens \/ ResolveEmails

SpecResolve == InitResolve /\ [][NextResolve]_vars

\* C22: for a fixed user store, the tokens (the addresses) that
\* gatherTokensForUserIds (gatherEmailsForUserIds) returns for an input are,
\* as a set, those it returns for every reordering of that input and for
\* the input with any of its identifiers given once more, and the result
\* holds no token (address) twice.
C22_ResolutionOrderFree ==
    (call.fn = "resolve"
       /\ call.done \in {"gatherTokensForUserIds", "gatherEmailsForUserIds"}) =>
        LET n == Len(call.input)
            Gather(in) == IF call.done = "gatherTokensForUserIds"
                          THEN GatherTokens(in, call.store)
                          ELSE GatherEmails(in, call.store)
        IN /\ \A i, j \in 1..Len(call.result) :
                 i # j => call.result[i] # call.result[j]
           /\ \A p \in Permutations(1..n) :
                 Range(Gather([k \in 1..n |-> call.input[p[k]]])) = Range(call.result)
           /\ \A k \in 1..n :
                 /\ Range(Gather(Append(call.input, call.input[k]))) = Range(call.result)
                 /\ Range(Gather(<<call.input[k]>> \o call.input)) = Range(call.result)

\* gatherTokensForUserIds has returned for an input that names u2 and u1,
\* in this order and in two different forms, on the store where the two
\* users share a token: the shared token is in the result once.
C22_Witness ==
    /\ call.fn = "resolve" /\ call.done = "gatherTokensForUserIds"
    /\ Len(call.input) = 2
    /\ NormalizeOne(call.input[1]) = "u2" /\ NormalizeOne(call.input[2]) = "u1"
    /\ call.input[1].kind = "object" /\ call.input[2].kind = "oid"
    /\ Len(call.store) = 2 /\ Len(call.store[1].fcmTokens) = 2
    /\ call.result = <<"t1", "t2">>

\* C23: normalizeUserIds returns valid id strings only, none twice, and
\* exactly the identities its input values carry: a bare valid id, an object
\* with an _id or id, a JSON text with an identity and a legacy string that
\* embeds one each give that identity; null, empty, invalid and unrecognised
\* values give nothing.
C23_NormalizeCarried ==
    (call.fn = "resolve" /\ call.done = "normalizeUserIds") =>
        LET Carried(v) ==
                IF v.kind \in {"bare", "object", "json", "oid", "field"}
                THEN IF v._id \in Users THEN v._id
                     ELSE IF v.id \in Users THEN v.id
                     ELSE None
                ELSE None
        IN /\ \A i \in 1..Len(call.result) : call.result[i] \in Users
           /\ \A i, j \in 1..Len(call.result) :
                 i # j => call.result[i] # call.result[j]
           /\ Range(call.result) =
                 {Carried(call.input[i]) : i \in 1..Len(call.input)} \ {None}

\* normalizeUserIds has returned for an object whose _id is no ObjectId
\* followed by a JSON text that carries u1: the result is u1 alone.
C23_Witness ==
    /\ call.fn = "resolve" /\ call.done = "normalizeUserIds"
    /\ Len(call.input) = 2
    /\ call.input[1] = Value("object", Bad, None, FALSE)
    /\ call.input[2] = Value("json", "u1", None, FALSE)
    /\ call.result = <<"u1">>

====
